---- MODULE Spec2Model ----
(***************************************************************************)
(* website_status_checker (src/website_status_checker/src/main.rs).        *)
(*                                                                         *)
(* main parses the command line, optionally reads a URL file, loads every  *)
(* URL into an mpsc channel, closes it, spawns `workers` threads that each *)
(* loop                                                                    *)
(*     while let Ok(url) = rx.lock().unwrap().recv() { check; print; send }*)
(* collects the records from a second mpsc channel until every sender is   *)
(* dropped, joins the threads and writes status.json.                      *)
(*                                                                         *)
(* The MutexGuard returned by rx.lock() is a temporary of the `while let`  *)
(* scrutinee; Rust drops such a temporary at the end of the loop body, so  *)
(* the guard is held from the claim until after tx.send(status).           *)
(*                                                                         *)
(* Environment inputs are drawn where the code reads them: the next        *)
(* command-line token in the parse loop, the file's contents at File::open,*)
(* the outcome and latency of a request at send().  The wall-clock         *)
(* `timestamp` field of WebsiteStatus is not modelled; `idx` is a history  *)
(* field (position of the URL in the submitted batch), not program state.  *)
(***************************************************************************)
EXTENDS Integers, Sequences, FiniteSets, TLC

(* ------------------------------ bounds -------------------------------- *)
\* largest batch explored (positional URLs plus file URLs)
MaxUrls == 2
\* largest value std::thread::available_parallelism() reports
MaxPar == 2
\* longest URL file explored, in lines
MaxFileLines == 2

(* ------------------------- program constants -------------------------- *)
\* unwrap_or(4) of available_parallelism (line 75)
FallbackWorkers == 4
\* Duration::from_secs(5) (lines 76, 101)
DefaultTimeout == 5
\* let mut retries = 0 (line 77), unwrap_or(0) (line 108)
DefaultRetries == 0
\* thread::sleep(Duration::from_millis(100)) (line 47)
RETRY_DELAY_MS == 100
\* std::process::exit(2) in print_usage_and_exit (line 68)
EXIT_USAGE == 2
\* std::process::exit(1) (line 125)
EXIT_FILE == 1
\* exit status of a Rust process whose main thread panicked
EXIT_PANIC == 101
\* main returns normally
EXIT_OK == 0

(* ------------------------------ inputs -------------------------------- *)
\* positional command-line tokens explored (none starts with "--")
UrlTokens == {"http://a", "http://b"}
\* tokens explored after --workers and --retries
ValueTokens == {"0", "1", "2", "abc"}
\* tokens explored after --timeout: the default spelled out, and one that
\* does not parse (the timeout only parameterises the request, whose outcome
\* is drawn freely in Probe)
TimeoutTokens == {"5", "abc"}
\* tokens explored after --file
PathTokens == {"sites.txt"}
\* the flags main's match knows, and one it does not
FlagTokens == {"--file", "--workers", "--timeout", "--retries", "--verbose"}
\* "no args[i]": the value of a flag is missing (i >= args.len())
NoArg == "<end of args>"
\* lines a URL file may hold: a URL, an empty line, a blank line, a comment
FileLines == {"http://f", "", "  ", "# note"}
\* HTTP status codes a response may carry
HttpCodes == {200, 500}
\* transport errors reqwest may report
TransportErrors == {"timed out"}
\* latencies of one request, in ms (one representative value)
Latencies == {20}

None == "<none>"

Max(S) == CHOOSE x \in S : \A y \in S : y <= x

\* thread ids of the pool: large enough for every `workers` value explored
WorkerIds == 1 .. Max({MaxPar, FallbackWorkers, 2})

SeqsUpTo(S, n) == UNION {[1 .. k -> S] : k \in 0 .. n}

Range(f) == {f[i] : i \in DOMAIN f}

\* the batches explored are duplicate-free, as the loader's callers supply them
NoDuplicates(seq) == \A i, j \in DOMAIN seq : seq[i] = seq[j] => i = j

(* -------------------------- pure functions ---------------------------- *)
\* Result<u16, String>
Ok(code) == [ok |-> TRUE, code |-> code, err |-> ""]
Err(msg) == [ok |-> FALSE, code |-> 0, err |-> msg]

\* str::parse::<usize>() on the tokens explored
ParseNum(tok) ==
    CASE tok = "0" -> [ok |-> TRUE, val |-> 0]
      [] tok = "1" -> [ok |-> TRUE, val |-> 1]
      [] tok = "2" -> [ok |-> TRUE, val |-> 2]
      [] tok = "5" -> [ok |-> TRUE, val |-> 5]
      [] OTHER -> [ok |-> FALSE, val |-> 0]

\* args[i].starts_with("--")
StartsWithDashes(tok) == tok \in FlagTokens

\* str::trim on the lines explored
Trim(line) == IF line = "  " THEN "" ELSE line

\* trimmed.starts_with('#')
IsComment(line) == line = "# note"

\* the filter closure of read_urls_from_file
KeepLine(line) == Trim(line) # "" /\ ~IsComment(Trim(line))

RECURSIVE FilterLines(_)
FilterLines(lines) ==
    IF lines = <<>> THEN <<>>
    ELSE IF KeepLine(Head(lines)) THEN <<Head(lines)>> \o FilterLines(Tail(lines))
    ELSE FilterLines(Tail(lines))

\* match result { Ok(resp) => Ok(resp.status().as_u16()), Err(e) => Err(e.to_string()) }
Classify(result) ==
    IF result.ok THEN Ok(result.code) ELSE Err(result.err)

\* faulty variants of the return test: one attempt too few, one too many,
\* and a 5xx response treated like a transport failure
ShouldReturnEarly(status, att, r) == status.ok \/ att + 1 >= r
ShouldReturnLate(status, att, r) == status.ok \/ att > r
ShouldReturnRetry5xx(status, att, r) == (status.ok /\ status.code < 500) \/ att >= r

\* if status.is_ok() || attempt >= retries
ShouldReturn(status, att, r) == status.ok \/ att >= r

\* what client.get(url).timeout(timeout).send() may return
SendResults == {Ok(c) : c \in HttpCodes} \cup {Err(e) : e \in TransportErrors}

(* ------------------------------- state -------------------------------- *)
VARIABLES
    pc,          \* main thread's position
    exitCode,    \* process exit status, None while running
    exitAt,      \* history: main's position when the process exited
    urls,        \* Vec<String> urls
    file_path,   \* Option<String>
    workers,     \* usize
    timeout,     \* Duration, in seconds
    retries,     \* usize
    urlChan,     \* mpsc::channel::<String>: items in flight
    urlTxOpen,   \* the URL channel's Sender tx is alive
    guard,       \* holder of the Mutex around rx (0: unlocked)
    poisoned,    \* the Mutex is poisoned
    resultChan,  \* mpsc::channel::<WebsiteStatus>: items in flight
    senders,     \* live Sender clones of the result channel
    rxAlive,     \* result_rx has not been dropped
    spawned,     \* handles.len()
    joined,      \* handles joined so far
    wpc,         \* each worker thread's position
    cur,         \* each worker's `url` of the while-let binding
    attempt,     \* check_website's attempt
    elapsed,     \* time since check_website's start_time, in ms
    status,      \* the WebsiteStatus check_website returned
    results,     \* Vec<WebsiteStatus> results
    stdout,      \* lines printed by the workers
    report,      \* status.json: whether it was written, and its entries
    probes,      \* history: outcomes of the attempts of the current check
    sleeps,      \* history: delays slept in the current check
    claimLog,    \* history: idx of every URL a recv returned, in order
    sentLog,     \* history: idx of every record sent by a worker
    handed,      \* history: times the results were handed to rendering
    lastProbe,   \* history: per submitted URL, the outcome of its latest attempt
    unparsed,    \* history: a numeric flag's value did not parse
    fileErr      \* history: the URL file could not be opened

mainVars == <<pc, exitCode, exitAt, urls, file_path, workers, timeout, retries>>
chanVars == <<urlChan, urlTxOpen, guard, poisoned, resultChan, senders, rxAlive>>
poolVars == <<spawned, joined, wpc, cur, attempt, elapsed, status>>
outVars == <<results, stdout, report>>
histVars == <<probes, sleeps, claimLog, sentLog, handed, lastProbe>>
argVars == <<unparsed, fileErr>>
vars == <<mainVars, chanVars, poolVars, outVars, histVars, argVars>>

NoReport == [written |-> FALSE, json |-> <<>>]
NoItem == [idx |-> 0, url |-> None]
NoStatus == [idx |-> 0, url |-> None, action_status |-> Err(None), response_time |-> 0]

\* std::thread::available_parallelism().map(|n| n.get()).unwrap_or(4)
DefaultWorkers == (1 .. MaxPar) \cup {FallbackWorkers}

Init ==
    /\ pc = "parse"
    /\ exitCode = None
    /\ exitAt = None
    /\ urls = <<>>
    /\ file_path = None
    /\ workers \in DefaultWorkers
    /\ timeout = DefaultTimeout
    /\ retries = DefaultRetries
    /\ urlChan = <<>>
    /\ urlTxOpen = FALSE
    /\ guard = 0
    /\ poisoned = FALSE
    /\ resultChan = <<>>
    /\ senders = 0
    /\ rxAlive = FALSE
    /\ spawned = 0
    /\ joined = 0
    /\ wpc = [w \in WorkerIds |-> "unspawned"]
    /\ cur = [w \in WorkerIds |-> NoItem]
    /\ attempt = [w \in WorkerIds |-> 0]
    /\ elapsed = [w \in WorkerIds |-> 0]
    /\ status = [w \in WorkerIds |-> NoStatus]
    /\ results = <<>>
    /\ stdout = <<>>
    /\ report = NoReport
    /\ probes = [w \in WorkerIds |-> <<>>]
    /\ sleeps = [w \in WorkerIds |-> 0]
    /\ claimLog = <<>>
    /\ sentLog = <<>>
    /\ handed = 0
    /\ lastProbe = <<>>
    /\ unparsed = FALSE
    /\ fileErr = FALSE

(* ------------------------------ main ---------------------------------- *)
\* std::process::exit(code)
Exit(code) ==
    /\ pc' = "exited"
    /\ exitCode' = code
    /\ exitAt' = pc

\* print_usage_and_exit()
UsageExit ==
    /\ Exit(EXIT_USAGE)
    /\ UNCHANGED <<urls, file_path, workers, timeout, retries>>

\* "--file": i += 1; file_path = Some(args[i].clone())
ParseFile ==
    /\ pc = "parse"
    /\ \E val \in PathTokens \cup {NoArg} :
         IF val = NoArg THEN UsageExit
         ELSE /\ file_path' = val
              /\ UNCHANGED <<pc, exitCode, exitAt, urls, workers, timeout, retries>>
    /\ UNCHANGED <<chanVars, poolVars, outVars, histVars>>
    /\ UNCHANGED argVars

\* "--workers": workers = args[i].parse().unwrap_or(workers)
ParseWorkers ==
    /\ pc = "parse"
    /\ \E val \in ValueTokens \cup {NoArg} :
         IF val = NoArg THEN UsageExit /\ UNCHANGED unparsed
         ELSE /\ workers' = IF ParseNum(val).ok THEN ParseNum(val).val ELSE workers
              /\ unparsed' = (unparsed \/ ~ParseNum(val).ok)
              /\ UNCHANGED <<pc, exitCode, exitAt, urls, file_path, timeout, retries>>
    /\ UNCHANGED <<chanVars, poolVars, outVars, histVars>>
    /\ UNCHANGED fileErr

\* "--timeout": timeout = Duration::from_secs(args[i].parse().unwrap_or(5))
ParseTimeout ==
    /\ pc = "parse"
    /\ \E val \in TimeoutTokens \cup {NoArg} :
         IF val = NoArg THEN UsageExit /\ UNCHANGED unparsed
         ELSE /\ timeout' = IF ParseNum(val).ok THEN ParseNum(val).val ELSE DefaultTimeout
              /\ unparsed' = (unparsed \/ ~ParseNum(val).ok)
              /\ UNCHANGED <<pc, exitCode, exitAt, urls, file_path, workers, retries>>
    /\ UNCHANGED <<chanVars, poolVars, outVars, histVars>>
    /\ UNCHANGED fileErr

\* "--retries": retries = args[i].parse().unwrap_or(0)
ParseRetries ==
    /\ pc = "parse"
    /\ \E val \in ValueTokens \cup {NoArg} :
         IF val = NoArg THEN UsageExit /\ UNCHANGED unparsed
         ELSE /\ retries' = IF ParseNum(val).ok THEN ParseNum(val).val ELSE DefaultRetries
              /\ unparsed' = (unparsed \/ ~ParseNum(val).ok)
              /\ UNCHANGED <<pc, exitCode, exitAt, urls, file_path, workers, timeout>>
    /\ UNCHANGED <<chanVars, poolVars, outVars, histVars>>
    /\ UNCHANGED fileErr

\* _ if args[i].starts_with("--") => print_usage_and_exit()
ParseUnknownFlag ==
    /\ pc = "parse"
    /\ \E tok \in FlagTokens \ {"--file", "--workers", "--timeout", "--retries"} :
         /\ StartsWithDashes(tok)
         /\ UsageExit
    /\ UNCHANGED <<chanVars, poolVars, outVars, histVars>>
    /\ UNCHANGED argVars

\* other => urls.push(other.to_string())
ParseUrl ==
    /\ pc = "parse"
    /\ Len(urls) < MaxUrls
    /\ \E tok \in UrlTokens :
         /\ ~StartsWithDashes(tok)
         /\ NoDuplicates(Append(urls, tok))
         /\ urls' = Append(urls, tok)
    /\ UNCHANGED <<pc, exitCode, exitAt, file_path, workers, timeout, retries>>
    /\ UNCHANGED <<chanVars, poolVars, outVars, histVars>>
    /\ UNCHANGED argVars

\* while i < args.len() is false: the command line is exhausted
ParseEnd ==
    /\ pc = "parse"
    /\ pc' = "file"
    /\ UNCHANGED <<exitCode, exitAt, urls, file_path, workers, timeout, retries>>
    /\ UNCHANGED <<chanVars, poolVars, outVars, histVars>>
    /\ UNCHANGED argVars

\* faulty variant: a file that cannot be opened is treated as an empty file
ReadFileIgnoreError ==
    /\ pc = "file"
    /\ IF file_path = None
       THEN /\ pc' = "empty"
            /\ UNCHANGED <<exitCode, exitAt, urls, fileErr>>
       ELSE \/ /\ pc' = "empty"
               /\ fileErr' = TRUE
               /\ UNCHANGED <<exitCode, exitAt, urls>>
            \/ \E lines \in SeqsUpTo(FileLines, MaxFileLines) :
                 /\ Len(urls) + Len(FilterLines(lines)) <= MaxUrls
                 /\ NoDuplicates(urls \o FilterLines(lines))
                 /\ urls' = urls \o FilterLines(lines)
                 /\ pc' = "empty"
                 /\ UNCHANGED <<exitCode, exitAt, fileErr>>
    /\ UNCHANGED <<file_path, workers, timeout, retries>>
    /\ UNCHANGED <<chanVars, poolVars, outVars, histVars>>
    /\ UNCHANGED unparsed

\* if let Some(path) = file_path { match read_urls_from_file(&path) ... }
ReadFile ==
    /\ pc = "file"
    /\ IF file_path = None
       THEN /\ pc' = "empty"
            /\ UNCHANGED <<exitCode, exitAt, urls, fileErr>>
       ELSE \/ /\ Exit(EXIT_FILE)
               /\ fileErr' = TRUE
               /\ UNCHANGED urls
            \/ \E lines \in SeqsUpTo(FileLines, MaxFileLines) :
                 /\ Len(urls) + Len(FilterLines(lines)) <= MaxUrls
                 /\ NoDuplicates(urls \o FilterLines(lines))
                 /\ urls' = urls \o FilterLines(lines)
                 /\ pc' = "empty"
                 /\ UNCHANGED <<exitCode, exitAt, fileErr>>
    /\ UNCHANGED <<file_path, workers, timeout, retries>>
    /\ UNCHANGED <<chanVars, poolVars, outVars, histVars>>
    /\ UNCHANGED unparsed

\* faulty variant: the empty batch is not rejected
CheckEmptySkip ==
    /\ pc = "empty"
    /\ IF FALSE
       THEN UsageExit
       ELSE /\ pc' = "send"
            /\ UNCHANGED <<exitCode, exitAt, urls, file_path, workers, timeout, retries>>
    /\ UNCHANGED <<chanVars, poolVars, outVars, histVars>>
    /\ UNCHANGED argVars

\* if urls.is_empty() { print_usage_and_exit(); }
CheckEmpty ==
    /\ pc = "empty"
    /\ IF urls = <<>>
       THEN UsageExit
       ELSE /\ pc' = "send"
            /\ UNCHANGED <<exitCode, exitAt, urls, file_path, workers, timeout, retries>>
    /\ UNCHANGED <<chanVars, poolVars, outVars, histVars>>
    /\ UNCHANGED argVars

\* faulty variant: the batch is sent last URL first
EnqueueReversed(batch) ==
    [i \in 1 .. Len(batch) |->
        [idx |-> Len(batch) + 1 - i, url |-> batch[Len(batch) + 1 - i]]]

\* for url in urls { tx.send(url).unwrap(); }
Enqueue(batch) == [i \in 1 .. Len(batch) |-> [idx |-> i, url |-> batch[i]]]

\* lines 134-139: the URL channel is created and the whole batch is sent
SendUrls ==
    /\ pc = "send"
    /\ urlChan' = Enqueue(urls)
    /\ urlTxOpen' = TRUE
    /\ pc' = "setup"
    /\ UNCHANGED <<exitCode, exitAt, urls, file_path, workers, timeout, retries>>
    /\ lastProbe' = [i \in 1 .. Len(urls) |-> Err(None)]
    /\ UNCHANGED <<guard, poisoned, resultChan, senders, rxAlive>>
    /\ UNCHANGED <<poolVars, outVars, probes, sleeps, claimLog, sentLog, handed>>
    /\ UNCHANGED argVars

\* lines 140-145: drop(tx); the result channel and the client are created
Setup ==
    /\ pc = "setup"
    /\ urlTxOpen' = FALSE
    /\ senders' = 1
    /\ rxAlive' = TRUE
    /\ pc' = "spawn"
    /\ UNCHANGED <<exitCode, exitAt, urls, file_path, workers, timeout, retries>>
    /\ UNCHANGED <<urlChan, guard, poisoned, resultChan>>
    /\ UNCHANGED <<poolVars, outVars, histVars>>
    /\ UNCHANGED argVars

\* one iteration of for _ in 0..workers: clone rx and result_tx, thread::spawn
Spawn ==
    /\ pc = "spawn"
    /\ spawned < workers
    /\ spawned' = spawned + 1
    /\ wpc' = [wpc EXCEPT ![spawned + 1] = "lock"]
    /\ senders' = senders + 1
    /\ UNCHANGED <<mainVars, outVars, histVars>>
    /\ UNCHANGED <<urlChan, urlTxOpen, guard, poisoned, resultChan, rxAlive>>
    /\ UNCHANGED <<joined, cur, attempt, elapsed, status>>
    /\ UNCHANGED argVars

\* the spawn loop ends; drop(result_tx)
DropResultTx ==
    /\ pc = "spawn"
    /\ spawned >= workers
    /\ senders' = senders - 1
    /\ pc' = "collect"
    /\ UNCHANGED <<exitCode, exitAt, urls, file_path, workers, timeout, retries>>
    /\ UNCHANGED <<urlChan, urlTxOpen, guard, poisoned, resultChan, rxAlive>>
    /\ UNCHANGED <<poolVars, outVars, histVars>>
    /\ UNCHANGED argVars

\* faulty variant: the newest record is put in front of the sequence
CollectPrepend ==
    /\ pc = "collect"
    /\ resultChan # <<>>
    /\ results' = <<Head(resultChan)>> \o results
    /\ resultChan' = Tail(resultChan)
    /\ UNCHANGED <<mainVars, poolVars, histVars, stdout, report>>
    /\ UNCHANGED <<urlChan, urlTxOpen, guard, poisoned, senders, rxAlive>>
    /\ UNCHANGED argVars

\* for result in result_rx { results.push(result); }: one record received
Collect ==
    /\ pc = "collect"
    /\ resultChan # <<>>
    /\ results' = Append(results, Head(resultChan))
    /\ resultChan' = Tail(resultChan)
    /\ UNCHANGED <<mainVars, poolVars, histVars, stdout, report>>
    /\ UNCHANGED <<urlChan, urlTxOpen, guard, poisoned, senders, rxAlive>>
    /\ UNCHANGED argVars

\* faulty variant: the collector stops as soon as the channel is momentarily empty
DisconnectedWhenEmpty == resultChan = <<>>

\* the iterator of result_rx ends: the channel is empty and every Sender dropped
Disconnected == resultChan = <<>> /\ senders = 0

\* the for loop ends and drops result_rx
CollectEnd ==
    /\ pc = "collect"
    /\ Disconnected
    /\ rxAlive' = FALSE
    /\ pc' = "join"
    /\ UNCHANGED <<exitCode, exitAt, urls, file_path, workers, timeout, retries>>
    /\ UNCHANGED <<urlChan, urlTxOpen, guard, poisoned, resultChan, senders>>
    /\ UNCHANGED <<poolVars, outVars, histVars>>
    /\ UNCHANGED argVars

\* handle.join().unwrap(): blocks until the thread ended, panics if it panicked
Join ==
    /\ pc = "join"
    /\ joined < spawned
    /\ wpc[joined + 1] \in {"done", "panicked"}
    /\ IF wpc[joined + 1] = "panicked"
       THEN /\ Exit(EXIT_PANIC)
            /\ UNCHANGED joined
       ELSE /\ joined' = joined + 1
            /\ UNCHANGED <<pc, exitCode, exitAt>>
    /\ UNCHANGED <<urls, file_path, workers, timeout, retries>>
    /\ UNCHANGED <<chanVars, outVars, histVars>>
    /\ UNCHANGED <<spawned, wpc, cur, attempt, elapsed, status>>
    /\ UNCHANGED argVars

\* one object of the JSON array (lines 186-195)
JsonEntry(rec) ==
    [url |-> rec.url,
     status |-> IF rec.action_status.ok THEN rec.action_status.code
                ELSE rec.action_status.err,
     time_ms |-> rec.response_time]

\* lines 184-201: the results are rendered
Render ==
    /\ pc = "join"
    /\ joined >= spawned
    /\ handed' = handed + 1
    /\ pc' = "write"
    /\ UNCHANGED <<exitCode, exitAt, urls, file_path, workers, timeout, retries>>
    /\ UNCHANGED <<chanVars, poolVars, outVars>>
    /\ UNCHANGED <<probes, sleeps, claimLog, sentLog, lastProbe>>
    /\ UNCHANGED argVars

\* std::fs::write("status.json", json).expect(...)
Write ==
    /\ pc = "write"
    /\ \/ /\ report' = [written |-> TRUE,
                        json |-> [i \in 1 .. Len(results) |-> JsonEntry(results[i])]]
          /\ Exit(EXIT_OK)
       \/ /\ Exit(EXIT_PANIC)
          /\ UNCHANGED report
    /\ UNCHANGED <<urls, file_path, workers, timeout, retries>>
    /\ UNCHANGED <<chanVars, poolVars, histVars, results, stdout>>
    /\ UNCHANGED argVars

MainStep ==
    \/ ParseFile \/ ParseWorkers \/ ParseTimeout \/ ParseRetries
    \/ ParseUnknownFlag \/ ParseUrl \/ ParseEnd
    \/ ReadFile \/ CheckEmpty \/ SendUrls \/ Setup \/ Spawn \/ DropResultTx
    \/ Collect \/ CollectEnd \/ Join \/ Render \/ Write

(* ----------------------------- workers -------------------------------- *)
\* a thread that panics unwinds: its result Sender clone is dropped
Panic(w) ==
    /\ wpc' = [wpc EXCEPT ![w] = "panicked"]
    /\ senders' = senders - 1

\* rx.lock().unwrap(): blocks while another thread holds the guard
Lock(w) ==
    /\ pc # "exited"
    /\ wpc[w] = "lock"
    /\ guard = 0
    /\ IF poisoned
       THEN /\ Panic(w)
            /\ UNCHANGED guard
       ELSE /\ guard' = w
            /\ wpc' = [wpc EXCEPT ![w] = "recv"]
            /\ UNCHANGED senders
    /\ UNCHANGED <<mainVars, outVars, histVars>>
    /\ UNCHANGED <<urlChan, urlTxOpen, poisoned, resultChan, rxAlive>>
    /\ UNCHANGED <<spawned, joined, cur, attempt, elapsed, status>>
    /\ UNCHANGED argVars

\* faulty variant: the claim also discards the URL behind the one it returns
AfterRecvSkip(chan) == IF Len(chan) > 1 THEN Tail(Tail(chan)) ELSE Tail(chan)

\* what recv() leaves in the channel after taking its head
AfterRecv(chan) == Tail(chan)

\* faulty variant: the guard is dropped as soon as recv() has returned
RecvAndUnlock(w) ==
    /\ pc # "exited"
    /\ wpc[w] = "recv"
    /\ urlChan # <<>>
    /\ cur' = [cur EXCEPT ![w] = Head(urlChan)]
    /\ urlChan' = AfterRecv(urlChan)
    /\ attempt' = [attempt EXCEPT ![w] = 0]
    /\ elapsed' = [elapsed EXCEPT ![w] = 0]
    /\ wpc' = [wpc EXCEPT ![w] = "probe"]
    /\ probes' = [probes EXCEPT ![w] = <<>>]
    /\ sleeps' = [sleeps EXCEPT ![w] = 0]
    /\ claimLog' = Append(claimLog, Head(urlChan).idx)
    /\ UNCHANGED <<mainVars, outVars, sentLog, handed, lastProbe>>
    /\ guard' = 0
    /\ UNCHANGED <<urlTxOpen, poisoned, resultChan, senders, rxAlive>>
    /\ UNCHANGED <<spawned, joined, status>>
    /\ UNCHANGED argVars

\* .recv() returns Ok(url): the body starts, check_website sets attempt = 0
Recv(w) ==
    /\ pc # "exited"
    /\ wpc[w] = "recv"
    /\ urlChan # <<>>
    /\ cur' = [cur EXCEPT ![w] = Head(urlChan)]
    /\ urlChan' = AfterRecv(urlChan)
    /\ attempt' = [attempt EXCEPT ![w] = 0]
    /\ elapsed' = [elapsed EXCEPT ![w] = 0]
    /\ wpc' = [wpc EXCEPT ![w] = "probe"]
    /\ probes' = [probes EXCEPT ![w] = <<>>]
    /\ sleeps' = [sleeps EXCEPT ![w] = 0]
    /\ claimLog' = Append(claimLog, Head(urlChan).idx)
    /\ UNCHANGED <<mainVars, outVars, sentLog, handed, lastProbe>>
    /\ UNCHANGED <<urlTxOpen, guard, poisoned, resultChan, senders, rxAlive>>
    /\ UNCHANGED <<spawned, joined, status>>
    /\ UNCHANGED argVars

\* .recv() returns Err (channel empty, tx dropped): the loop ends, the guard
\* is dropped and the closure returns, dropping its result Sender
WorkerExit(w) ==
    /\ pc # "exited"
    /\ wpc[w] = "recv"
    /\ urlChan = <<>>
    /\ ~urlTxOpen
    /\ guard' = 0
    /\ senders' = senders - 1
    /\ wpc' = [wpc EXCEPT ![w] = "done"]
    /\ UNCHANGED <<mainVars, outVars, histVars>>
    /\ UNCHANGED <<urlChan, urlTxOpen, poisoned, resultChan, rxAlive>>
    /\ UNCHANGED <<spawned, joined, cur, attempt, elapsed, status>>
    /\ UNCHANGED argVars

\* WebsiteStatus { url, action_status, response_time, .. } (lines 38-43)
MakeStatus(item, st, ms) ==
    [idx |-> item.idx, url |-> item.url, action_status |-> st, response_time |-> ms]

\* lines 30-44: one request; return, or go on to the delay
Probe(w) ==
    /\ pc # "exited"
    /\ wpc[w] = "probe"
    /\ \E res \in SendResults, lat \in Latencies :
         LET st == Classify(res) IN
         /\ elapsed' = [elapsed EXCEPT ![w] = @ + lat]
         /\ probes' = [probes EXCEPT ![w] = Append(@, st)]
         /\ lastProbe' = [lastProbe EXCEPT ![cur[w].idx] = st]
         /\ IF ShouldReturn(st, attempt[w], retries)
            THEN /\ status' = [status EXCEPT ![w] = MakeStatus(cur[w], st, elapsed[w] + lat)]
                 /\ wpc' = [wpc EXCEPT ![w] = "print"]
            ELSE /\ wpc' = [wpc EXCEPT ![w] = "sleep"]
                 /\ UNCHANGED status
    /\ UNCHANGED <<mainVars, chanVars, outVars, sleeps, claimLog, sentLog, handed>>
    /\ UNCHANGED <<spawned, joined, cur, attempt>>
    /\ UNCHANGED argVars

\* lines 46-47: attempt += 1; thread::sleep(100 ms)
Sleep(w) ==
    /\ pc # "exited"
    /\ wpc[w] = "sleep"
    /\ attempt' = [attempt EXCEPT ![w] = @ + 1]
    /\ elapsed' = [elapsed EXCEPT ![w] = @ + RETRY_DELAY_MS]
    /\ sleeps' = [sleeps EXCEPT ![w] = @ + 1]
    /\ wpc' = [wpc EXCEPT ![w] = "probe"]
    /\ UNCHANGED <<mainVars, chanVars, outVars, probes, claimLog, sentLog, handed, lastProbe>>
    /\ UNCHANGED <<spawned, joined, cur, status>>
    /\ UNCHANGED argVars

\* the line println! writes (lines 156-165)
StatusLine(rec) ==
    [idx |-> rec.idx,
     url |-> rec.url,
     text |-> IF rec.action_status.ok THEN rec.action_status.code
              ELSE rec.action_status.err,
     time |-> rec.response_time]

\* faulty variant: the status line of a Failure is not printed
PrintLineOnlyOk(w) ==
    /\ pc # "exited"
    /\ wpc[w] = "print"
    /\ stdout' = IF status[w].action_status.ok
                  THEN Append(stdout, StatusLine(status[w])) ELSE stdout
    /\ wpc' = [wpc EXCEPT ![w] = "send"]
    /\ UNCHANGED <<mainVars, chanVars, histVars, results, report>>
    /\ UNCHANGED <<spawned, joined, cur, attempt, elapsed, status>>
    /\ UNCHANGED argVars

\* println!("{} - {} - {:?}", ...)
PrintLine(w) ==
    /\ pc # "exited"
    /\ wpc[w] = "print"
    /\ stdout' = Append(stdout, StatusLine(status[w]))
    /\ wpc' = [wpc EXCEPT ![w] = "send"]
    /\ UNCHANGED <<mainVars, chanVars, histVars, results, report>>
    /\ UNCHANGED <<spawned, joined, cur, attempt, elapsed, status>>
    /\ UNCHANGED argVars

\* faulty variant: a Failure outcome is unwrapped, so its worker panics
SendRecordUnwrap(w) ==
    /\ pc # "exited"
    /\ wpc[w] = "send"
    /\ IF rxAlive /\ status[w].action_status.ok
       THEN /\ resultChan' = Append(resultChan, status[w])
            /\ sentLog' = Append(sentLog, status[w].idx)
            /\ wpc' = [wpc EXCEPT ![w] = "release"]
            /\ UNCHANGED <<guard, poisoned, senders>>
       ELSE /\ Panic(w)
            /\ poisoned' = TRUE
            /\ guard' = 0
            /\ UNCHANGED <<resultChan, sentLog>>
    /\ UNCHANGED <<mainVars, outVars, probes, sleeps, claimLog, handed, lastProbe>>
    /\ UNCHANGED <<urlChan, urlTxOpen, rxAlive>>
    /\ UNCHANGED <<spawned, joined, cur, attempt, elapsed, status>>
    /\ UNCHANGED argVars

\* tx.send(status).unwrap(): Err, hence a panic with the guard held, only if
\* result_rx is gone
SendRecord(w) ==
    /\ pc # "exited"
    /\ wpc[w] = "send"
    /\ IF rxAlive
       THEN /\ resultChan' = Append(resultChan, status[w])
            /\ sentLog' = Append(sentLog, status[w].idx)
            /\ wpc' = [wpc EXCEPT ![w] = "release"]
            /\ UNCHANGED <<guard, poisoned, senders>>
       ELSE /\ Panic(w)
            /\ poisoned' = TRUE
            /\ guard' = 0
            /\ UNCHANGED <<resultChan, sentLog>>
    /\ UNCHANGED <<mainVars, outVars, probes, sleeps, claimLog, handed, lastProbe>>
    /\ UNCHANGED <<urlChan, urlTxOpen, rxAlive>>
    /\ UNCHANGED <<spawned, joined, cur, attempt, elapsed, status>>
    /\ UNCHANGED argVars

\* end of the loop body: url and status go out of scope and the MutexGuard
\* temporary of the scrutinee is dropped
Release(w) ==
    /\ pc # "exited"
    /\ wpc[w] = "release"
    /\ guard' = 0
    /\ wpc' = [wpc EXCEPT ![w] = "lock"]
    /\ cur' = [cur EXCEPT ![w] = NoItem]
    /\ status' = [status EXCEPT ![w] = NoStatus]
    /\ attempt' = [attempt EXCEPT ![w] = 0]
    /\ elapsed' = [elapsed EXCEPT ![w] = 0]
    /\ probes' = [probes EXCEPT ![w] = <<>>]
    /\ sleeps' = [sleeps EXCEPT ![w] = 0]
    /\ UNCHANGED <<mainVars, outVars, claimLog, sentLog, handed, lastProbe>>
    /\ UNCHANGED <<urlChan, urlTxOpen, poisoned, resultChan, senders, rxAlive>>
    /\ UNCHANGED <<spawned, joined>>
    /\ UNCHANGED argVars

WorkerStep(w) ==
    \/ Lock(w) \/ Recv(w) \/ WorkerExit(w) \/ Probe(w) \/ Sleep(w)
    \/ PrintLine(w) \/ SendRecord(w) \/ Release(w)

(* -------------------------- specifications ---------------------------- *)
Next == MainStep \/ \E w \in WorkerIds : WorkerStep(w)

Spec == Init /\ [][Next]_vars

\* the command line is finite, and the OS schedules every runnable thread
FairSpec ==
    /\ Spec
    /\ WF_vars(ParseEnd)
    /\ WF_vars(MainStep)
    /\ \A w \in WorkerIds : WF_vars(WorkerStep(w))

(* ------------------------------ claims -------------------------------- *)
\* the collector's receive loop has ended
Collected ==
    \/ pc \in {"join", "write"}
    \/ pc = "exited" /\ exitCode \in {EXIT_OK, EXIT_PANIC}

\* check_website has returned to worker w and its record is still in scope
Returned(w) == wpc[w] \in {"print", "send", "release"}

\* every submitted URL has exactly one record, and it carries that URL
OneRecordPerUrl ==
    /\ Len(results) = Len(urls)
    /\ \A i \in 1 .. Len(urls) :
         /\ Cardinality({j \in DOMAIN results : results[j].idx = i}) = 1
         /\ \E j \in DOMAIN results : results[j].idx = i /\ results[j].url = urls[i]

\* C1: when the collector's loop has ended, the records collected are exactly
\* one per submitted URL (none lost, none duplicated), whatever the worker
\* count.  The code accepts --workers 0 and then collects nothing.
C1_OneRecordPerUrl == Collected => OneRecordPerUrl

\* C1, as far as the code keeps it: with at least one worker the records are
\* exactly one per submitted URL.
C1_WithAWorker == (Collected /\ workers >= 1) => OneRecordPerUrl

\* C2: under fair scheduling, once a non-empty batch is queued the process
\* reaches the report-writing step with every worker exited, every handle
\* joined and a record for every submitted URL.
C2_ReachesReport ==
    (pc = "send") ~>
        (/\ pc = "write"
         /\ \A w \in 1 .. spawned : wpc[w] = "done"
         /\ joined = spawned
         /\ OneRecordPerUrl)

\* C2, as far as the code keeps it: no deadlock; once a non-empty batch is
\* queued the report-writing step is reached with all threads joined.
C2_NoDeadlock ==
    (pc = "send") ~>
        (/\ pc = "write"
         /\ \A w \in 1 .. spawned : wpc[w] = "done"
         /\ joined = spawned
         /\ (workers >= 1 => OneRecordPerUrl))

AllFailed(seq) == \A i \in DOMAIN seq : ~seq[i].ok

\* C3: a check whose every attempt was a transport failure returns a Failure
\* after exactly retries + 1 attempts and exactly retries delays of 100 ms,
\* with an elapsed time of at least retries x 100 ms that covers the attempts.
C3_AlwaysFailing ==
    \A w \in WorkerIds :
        (Returned(w) /\ AllFailed(probes[w])) =>
            /\ Len(probes[w]) = retries + 1
            /\ sleeps[w] = retries
            /\ ~status[w].action_status.ok
            /\ status[w].response_time >= retries * RETRY_DELAY_MS
            /\ status[w].response_time = elapsed[w]

C3_Witness ==
    \E w \in WorkerIds :
        /\ Returned(w)
        /\ AllFailed(probes[w])
        /\ retries = 2
        /\ Len(probes[w]) = 3
        /\ status[w].response_time >= 200

\* C4: a returned check made its attempts up to the first Success and no
\* further: every attempt before the last failed, the delays are one fewer
\* than the attempts, the outcome returned is the last attempt's, and a check
\* returns a Failure only after retries + 1 attempts; so a first Success at
\* attempt k <= retries gives k + 1 attempts, k delays and that Success.
C4_FirstSuccess ==
    \A w \in WorkerIds :
        Returned(w) =>
            LET n == Len(probes[w]) IN
            /\ n >= 1 /\ n <= retries + 1
            /\ \A j \in 1 .. n - 1 : ~probes[w][j].ok
            /\ sleeps[w] = n - 1
            /\ attempt[w] = n - 1
            /\ status[w].action_status = probes[w][n]
            /\ (~probes[w][n].ok => n = retries + 1)

\* fail, fail, succeed with retries = 2: three attempts, two delays, Success
C4_Witness ==
    \E w \in WorkerIds :
        /\ Returned(w)
        /\ retries = 2
        /\ Len(probes[w]) = 3
        /\ ~probes[w][1].ok /\ ~probes[w][2].ok /\ probes[w][3].ok
        /\ sleeps[w] = 2
        /\ status[w].action_status.ok

\* C5: an attempt that received a response, whatever its status code, is the
\* last attempt of its check: the check has returned with that code and no
\* delay or further attempt follows it, even when retries remain.
C5_ResponseNeverRetried ==
    \A w \in WorkerIds :
        \A j \in DOMAIN probes[w] :
            probes[w][j].ok =>
                /\ j = Len(probes[w])
                /\ Returned(w)
                /\ status[w].action_status = Ok(probes[w][j].code)
                /\ sleeps[w] = j - 1

\* a 500 on the first attempt with two retries left is returned at once
C5_Witness ==
    \E w \in WorkerIds :
        /\ Returned(w)
        /\ retries = 2
        /\ probes[w] = <<Ok(500)>>
        /\ status[w].action_status = Ok(500)

\* positions of the batch still in the URL channel
Queued == {urlChan[i].idx : i \in DOMAIN urlChan}

\* C6: no URL is received twice and none is skipped: the claims made so far
\* are pairwise different, two workers never hold the same URL, every
\* submitted URL is either claimed or still queued, and once a pool of at
\* least one worker has exited every submitted URL has been claimed.
C6_ClaimedExactlyOnce ==
    /\ NoDuplicates(claimLog)
    /\ \A w, v \in WorkerIds :
         (w # v /\ cur[w] # NoItem) => cur[w].idx # cur[v].idx
    /\ \A w \in WorkerIds : cur[w] # NoItem => cur[w].url = urls[cur[w].idx]
    /\ pc \in {"setup", "spawn", "collect", "join", "write"} =>
         /\ Range(claimLog) \cup Queued = 1 .. Len(urls)
         /\ Range(claimLog) \cap Queued = {}
    /\ (Collected /\ workers >= 1) => Range(claimLog) = 1 .. Len(urls)

\* two workers have each claimed one URL of a two-URL batch
C6_Witness ==
    /\ Len(urls) = 2
    /\ claimLog = <<1, 2>>
    /\ \E w, v \in WorkerIds :
         w # v /\ cur[w].idx = 2 /\ wpc[v] = "lock" /\ wpc[w] = "probe"

\* C7: while a worker is in the Retry Controller (probing or sleeping), an
\* idle worker is not blocked by it: with URLs left in the backlog it can
\* take the lock and claim the next one.  In the code the first worker still
\* holds the MutexGuard, so the idle worker cannot.
C7_OthersNotBlocked ==
    \A w, v \in WorkerIds :
        (w # v /\ wpc[w] \in {"probe", "sleep"} /\ wpc[v] = "lock" /\ urlChan # <<>>)
            => ENABLED Lock(v)

\* what the code does instead: at most one worker is ever past its claim
C7_Serialized ==
    \A w, v \in WorkerIds :
        (wpc[w] \in {"recv", "probe", "sleep", "print", "send", "release"}
         /\ wpc[v] \in {"recv", "probe", "sleep", "print", "send", "release"}) => w = v

\* C8: the results are handed to rendering at most once, and once the
\* collector's loop has ended every spawned worker has terminated, no sender
\* is left, the channel is empty and every record a worker sent is in the
\* sequence; a process that ends normally has handed them exactly once.
C8_NoEarlyCompletion ==
    /\ handed <= 1
    /\ Collected =>
         /\ spawned = workers
         /\ \A w \in 1 .. spawned : wpc[w] = "done"
         /\ senders = 0 /\ resultChan = <<>>
         /\ [j \in DOMAIN results |-> results[j].idx] = sentLog
    /\ handed = 1 => Collected /\ joined = spawned
    /\ (pc = "write" \/ (pc = "exited" /\ exitCode = EXIT_OK)) => handed = 1
    /\ report.written => report.json = [j \in DOMAIN results |-> JsonEntry(results[j])]

\* the report of a two-URL batch has been written after a two-worker run
C8_Witness ==
    /\ pc = "exited" /\ exitCode = EXIT_OK
    /\ handed = 1
    /\ spawned = 2
    /\ Len(results) = 2
    /\ report.written

\* C9: the set of (url, outcome) records collected is the same for every
\* worker count: it is the set of the submitted URLs, each with the outcome
\* of its final attempt.  With --workers 0 the code collects the empty set.
C9_SameRecordSet ==
    Collected =>
        {<<results[j].url, results[j].action_status>> : j \in DOMAIN results}
            = {<<urls[i], lastProbe[i]>> : i \in DOMAIN urls}

\* C9, as far as the code keeps it: the same, for every worker count >= 1
C9_WithAWorker ==
    (Collected /\ workers >= 1) =>
        {<<results[j].url, results[j].action_status>> : j \in DOMAIN results}
            = {<<urls[i], lastProbe[i]>> : i \in DOMAIN urls}

\* C10: a command line the program accepts (it gets past the usage, file and
\* empty-batch exits and queues its batch) has a positive pool size, and at
\* least one worker has been spawned when the collector starts.
C10_PositivePool ==
    /\ pc \in {"send", "setup", "spawn", "collect", "join", "write"} => workers >= 1
    /\ pc \in {"collect", "join", "write"} => spawned >= 1

\* a check has ended in a Failure: a worker holds such a record, or one is
\* in the result channel or collected
HasFailure ==
    \/ \E w \in WorkerIds : status[w] # NoStatus /\ ~status[w].action_status.ok
    \/ \E j \in DOMAIN resultChan : ~resultChan[j].action_status.ok
    \/ \E j \in DOMAIN results : ~results[j].action_status.ok

\* C11: a transport failure is never fatal: once some check has ended in a
\* Failure, no thread has panicked, the mutex is not poisoned, the process
\* is never stuck before its exit, it exits only at the write step (after
\* rendering), and when the collector's loop has ended every URL was claimed
\* and has exactly one record, each carrying the outcome of its URL's last
\* attempt, the Failure included.
C11_FailureContained ==
    HasFailure =>
        /\ \A w \in WorkerIds : wpc[w] # "panicked"
        /\ ~poisoned
        /\ pc # "exited" => ENABLED Next
        /\ pc = "exited" => (exitAt = "write" /\ handed = 1)
        /\ Collected =>
             /\ Range(claimLog) = 1 .. Len(urls)
             /\ OneRecordPerUrl
             /\ \A j \in DOMAIN results :
                  results[j].action_status = lastProbe[results[j].idx]

\* the report step is reached with a Failure record next to a Success record
C11_Witness ==
    /\ pc = "write"
    /\ Len(results) = 2
    /\ ~results[1].action_status.ok
    /\ results[2].action_status.ok
    /\ retries = 2

\* C12: a usage error makes the process exit at once with no check done;
\* here for a numeric flag whose value does not parse (a flag whose value is
\* missing exits in the same step, see UsageExit).  The code falls back to
\* a default (unwrap_or) and goes on.
C12_UnparseableExits ==
    unparsed => (pc = "exited" /\ exitCode = EXIT_USAGE /\ claimLog = <<>>)

\* what the code keeps of C12: an exit in the parse loop is a usage exit with
\* no thread spawned and nothing claimed
C12_ParseExitIsUsage ==
    (pc = "exited" /\ exitAt = "parse") =>
        (exitCode = EXIT_USAGE /\ spawned = 0 /\ claimLog = <<>>)

\* C13: an empty batch never gets past the emptiness test: no channel is
\* filled, no worker is spawned, nothing is probed, printed or written; the
\* process that reaches the test with an empty batch exits there with code 2,
\* and only an empty batch exits there.
C13_EmptyBatchExits ==
    /\ urls = <<>> =>
         /\ pc \in {"parse", "file", "empty", "exited"}
         /\ spawned = 0
         /\ \A w \in WorkerIds : wpc[w] = "unspawned" /\ probes[w] = <<>>
         /\ urlChan = <<>> /\ claimLog = <<>> /\ stdout = <<>>
         /\ ~report.written
         /\ pc = "exited" => exitCode \in {EXIT_USAGE, EXIT_FILE}
         /\ (pc = "exited" /\ ~fileErr) => exitCode = EXIT_USAGE
    /\ (pc = "exited" /\ exitAt = "empty") => (urls = <<>> /\ exitCode = EXIT_USAGE)

\* no --file, no positional URL: the process exited at the emptiness test
C13_Witness ==
    /\ pc = "exited"
    /\ exitAt = "empty"
    /\ file_path = None
    /\ urls = <<>>
    /\ exitCode = EXIT_USAGE

\* C14: when the URL file cannot be opened the process has exited with
\* code 1 at the file step, with no worker spawned, no URL queued, claimed
\* or probed, no line printed and no report written, whatever positional
\* URLs were given.
C14_FileErrorExits ==
    fileErr =>
        /\ pc = "exited" /\ exitCode = EXIT_FILE /\ exitAt = "file"
        /\ file_path # None
        /\ spawned = 0
        /\ \A w \in WorkerIds : wpc[w] = "unspawned" /\ probes[w] = <<>>
        /\ urlChan = <<>> /\ claimLog = <<>> /\ stdout = <<>>
        /\ results = <<>>
        /\ ~report.written

\* the file could not be opened although two positional URLs were given
C14_Witness ==
    /\ fileErr
    /\ Len(urls) = 2
    /\ exitCode = EXIT_FILE

\* C15: the backlog is claimed first in, first out: the k-th claim returns
\* the k-th URL submitted, and what is still queued follows in submission
\* order.
C15_Fifo ==
    /\ \A k \in DOMAIN claimLog : claimLog[k] = k
    /\ \A w \in WorkerIds : cur[w] # NoItem => cur[w].url = urls[cur[w].idx]
    /\ \A i \in DOMAIN urlChan :
         /\ urlChan[i].idx = Len(claimLog) + i
         /\ urlChan[i].url = urls[Len(claimLog) + i]

\* the second claim, by another worker than the first, holds the second URL
C15_Witness ==
    /\ claimLog = <<1, 2>>
    /\ \E w \in WorkerIds : w # 1 /\ cur[w] = [idx |-> 2, url |-> urls[2]]
    /\ wpc[1] = "lock"

\* C16: every step leaves the collected sequence unchanged or appends
\* exactly one record to its end; no collected record is changed, reordered
\* or removed.
C16_AppendOnly ==
    [][\/ results' = results
       \/ /\ Len(results') = Len(results) + 1
          /\ SubSeq(results', 1, Len(results)) = results]_vars

\* two records have been collected one after the other
C16_Witness ==
    /\ Len(results) = 2
    /\ pc = "collect"

\* C17: the status line of a check is printed before its record is handed
\* over: every record in the result channel or in the collected sequence
\* has its line on standard output, so at the report-writing step, and
\* after it failed, every collected record has been printed.
C17_PrintedBeforeSent ==
    /\ \A j \in DOMAIN resultChan :
         \E k \in DOMAIN stdout : stdout[k] = StatusLine(resultChan[j])
    /\ \A j \in DOMAIN results :
         \E k \in DOMAIN stdout : stdout[k] = StatusLine(results[j])
    /\ Len(sentLog) <= Len(stdout)

\* the report could not be written; both records had been printed
C17_Witness ==
    /\ pc = "exited" /\ exitAt = "write" /\ exitCode = EXIT_PANIC
    /\ ~report.written
    /\ Len(results) = 2
    /\ Len(stdout) = 2
    /\ ~results[1].action_status.ok

\* C18: a worker holds the mutex from its claim until it has sent its
\* record, so records are sent and collected in submission order, and the
\* report of a pool of at least one worker lists the URLs in the order they
\* were queued.
C18_SubmissionOrder ==
    /\ \A w \in WorkerIds :
         wpc[w] \in {"recv", "probe", "sleep", "print", "send", "release"} => guard = w
    /\ \A k \in DOMAIN sentLog : sentLog[k] = k
    /\ \A j \in DOMAIN results : results[j].idx = j /\ results[j].url = urls[j]
    /\ (report.written /\ workers >= 1) =>
         [j \in DOMAIN report.json |-> report.json[j].url] = urls

\* the report of a two-URL batch checked by a pool of two, each worker
\* having claimed one URL
C18_Witness ==
    /\ report.written
    /\ workers = 2
    /\ Len(report.json) = 2
    /\ report.json[1].url = urls[1]
    /\ report.json[2].url = urls[2]

====
